---- MODULE Spec2Model ----
(***************************************************************************)
(* The windowed list of src/content/posts/virtualizing-react.mdx: the     *)
(* `Pure` component keeps one piece of React state, scrollTop, and on     *)
(* every render derives startIndex, endIndex, visibleItems, the height of *)
(* the spacer and the top of the rendered-items wrapper from it.          *)
(*                                                                         *)
(* The four constants of the article (ITEM_HEIGHT, BUFFER_ITEMS,          *)
(* TOTAL_ITEMS, VIEWPORT_HEIGHT) are the configuration of one instance;   *)
(* the model draws them from small sets and also from the documented      *)
(* values, so that statements "for every configuration" are checkable.    *)
(*                                                                         *)
(* Numbers are JavaScript numbers.  Every quantity of the component is an *)
(* integer except the results of a division by ITEM_HEIGHT = 0, which are *)
(* NaN, +Infinity or -Infinity; a JS number is therefore a record         *)
(* [kind, val].  Signed zero is identified with 0: nothing divides by a   *)
(* computed value.  Pixel values are whole pixels.                        *)
(***************************************************************************)
EXTENDS Integers, Sequences, FiniteSets, TLC

\* ---------------------------------------------------------------- bounds
MaxItemHeight == 2
MaxBuffer == 1
MaxViewport == 2
MaxItems == 3
MaxNegItemHeight == 0
MaxNegScroll == 1
MaxScroll == 5
MaxQueue == 2
MaxDocOverscroll == 300
MaxPathLen == 3
MaxHops == 3
MaxSignIns == 2
MaxClicks == 3

\* ------------------------------------------------- the documented constants
ITEM_HEIGHT == 32
BUFFER_ITEMS == 20
TOTAL_ITEMS == 500
VIEWPORT_HEIGHT == 300

\* Scroll offsets tried under the documented constants: the transient -50,
\* the top, item #50, item #100, the last valid offset (16000 - 300) and
\* the full content height.
DocScrollOffsets == {-50, 0, 1600, 3200, 15700, 16000}

\* List sizes tried under the documented constants: the empty list, lists
\* shorter than and about as long as one window, TOTAL_ITEMS and the 1,000
\* the article proposes.
DocListSizes == {0, 10, 60, TOTAL_ITEMS, 1000}

VARIABLES
    itemHeight,      \* ITEM_HEIGHT of this instance
    bufferItems,     \* BUFFER_ITEMS of this instance
    viewportHeight,  \* VIEWPORT_HEIGHT of this instance
    allItems,        \* ALL_ITEMS: the item sequence, each item its own key
    scrollTop,       \* the scrollTop state as of the last render
    updates,         \* setScrollTop calls not yet rendered, oldest first
    dom              \* what the last render committed

\* The listVars are the windowed list; the two other programs of the
\* repository that are modelled, each with its own specification, are the
\* authentication flow of src/content/posts/authentication.mdx and the copy
\* button of src/components/react/Pre.tsx.
VARIABLES
    session,         \* what req.auth holds: null or the session of a user
    nav,             \* the requests of the current navigation, oldest first
    loginCall,       \* the invocation of the login server action
    signInCalls      \* number of signIn("credentials", formData) calls made

VARIABLES
    isCopied,        \* the isCopied state of CodeBlock
    icon,            \* the icon the last render committed
    writes,          \* navigator.clipboard.writeText promises not yet settled
    timers,          \* ms left of each pending setTimeout callback
    clipboard,       \* the text on the system clipboard
    sinceCopy,       \* ms since the last completed copy, up to RESET_DELAY
    outcomes         \* how the writeText promises settled, oldest first

listVars == <<itemHeight, bufferItems, viewportHeight, allItems, scrollTop,
              updates, dom>>
authVars == <<session, nav, loginCall, signInCalls>>
copyVars == <<isCopied, icon, writes, timers, clipboard, sinceCopy, outcomes>>

vars == <<itemHeight, bufferItems, viewportHeight, allItems, scrollTop,
          updates, dom, session, nav, loginCall, signInCalls, isCopied,
          icon, writes, timers, clipboard, sinceCopy, outcomes>>

\* ------------------------------------------------------------ JS numbers
Num(n) == [kind |-> "num", val |-> n]
NaN == [kind |-> "nan", val |-> 0]
Infinity(sign) == [kind |-> "inf", val |-> sign]

IsNum(x) == x.kind = "num"

Sign(n) == IF n > 0 THEN 1 ELSE IF n < 0 THEN -1 ELSE 0

\* floor(a / b) and ceil(a / b) of two integers, b # 0
FloorDiv(a, b) == IF b > 0 THEN a \div b ELSE (-a) \div (-b)
CeilDiv(a, b) == -FloorDiv(-a, b)

\* Math.floor(a / b)
MathFloorQuot(a, b) ==
    IF b # 0 THEN Num(FloorDiv(a, b))
    ELSE IF a = 0 THEN NaN ELSE Infinity(Sign(a))

\* Math.ceil(a / b)
MathCeilQuot(a, b) ==
    IF b # 0 THEN Num(CeilDiv(a, b))
    ELSE IF a = 0 THEN NaN ELSE Infinity(Sign(a))

\* x + n for a JS number x and an integer n
Plus(x, n) == IF IsNum(x) THEN Num(x.val + n) ELSE x

\* x * n for a JS number x and an integer n
Times(x, n) ==
    IF IsNum(x) THEN Num(x.val * n)
    ELSE IF x.kind = "nan" \/ n = 0 THEN NaN
    ELSE Infinity(x.val * Sign(n))

\* Math.max(n, x) and Math.min(n, x) for an integer n and a JS number x
MathMax(n, x) ==
    IF IsNum(x) THEN Num(IF x.val > n THEN x.val ELSE n)
    ELSE IF x.kind = "nan" THEN NaN
    ELSE IF x.val > 0 THEN x ELSE Num(n)

MathMin(n, x) ==
    IF IsNum(x) THEN Num(IF x.val < n THEN x.val ELSE n)
    ELSE IF x.kind = "nan" THEN NaN
    ELSE IF x.val < 0 THEN x ELSE Num(n)

\* Array.prototype.slice's reading of one bound on an array of length len:
\* NaN is 0, a negative bound counts from the end, the result is in 0..len
SliceBound(len, x) ==
    IF x.kind = "nan" THEN 0
    ELSE IF x.kind = "inf" THEN (IF x.val < 0 THEN 0 ELSE len)
    ELSE IF x.val < 0 THEN (IF len + x.val > 0 THEN len + x.val ELSE 0)
    ELSE IF x.val < len THEN x.val ELSE len

\* items.slice(from, to)
Slice(items, from, to) ==
    LET k == SliceBound(Len(items), from)
        final == SliceBound(Len(items), to)
    IN  IF final > k THEN SubSeq(items, k + 1, final) ELSE <<>>

\* ------------------------------------------------------- the Pure component
\* ALL_ITEMS of length n: the item at index i carries the key i (0-based)
ALL_ITEMS(n) == [i \in 1..n |-> i - 1]

\* mutant: the operands of the subtraction exchanged
startIndexSwapped(st, ih, bi) ==
    MathMax(0, Plus(Times(MathFloorQuot(st, ih), -1), bi))

\* mutant: the buffer added where the component subtracts it
startIndexPlusBuffer(st, ih, bi) ==
    MathMax(0, Plus(MathFloorQuot(st, ih), bi))

\* mutant: the offset divided by the buffer count, not by the item height
startIndexWrongDivisor(st, ih, bi) ==
    MathMax(0, Plus(MathFloorQuot(st, bi), -bi))

startIndex(st, ih, bi) == MathMax(0, Plus(MathFloorQuot(st, ih), -bi))

\* mutant: Math.floor where the component has Math.ceil
endIndexFloor(st, ih, bi, vh, len) ==
    MathMin(len, Plus(MathFloorQuot(st + vh, ih), bi))

\* mutant: the last index where the component has the length
endIndexLastIndex(st, ih, bi, vh, len) ==
    MathMin(len - 1, Plus(MathCeilQuot(st + vh, ih), bi))

\* mutant: the parentheses around scrollTop + VIEWPORT_HEIGHT left out
endIndexNoParens(st, ih, bi, vh, len) ==
    MathMin(len, Plus(Plus(MathCeilQuot(vh, ih), st), bi))

\* mutant: the buffer left out below the viewport
endIndexNoBuffer(st, ih, bi, vh, len) ==
    MathMin(len, MathCeilQuot(st + vh, ih))

endIndex(st, ih, bi, vh, len) ==
    MathMin(len, Plus(MathCeilQuot(st + vh, ih), bi))

visibleItems(items, si, ei) == Slice(items, si, ei)

\* mutant: the item count without the item height
placeholderHeightCountOnly(len, ih) == len

\* style height of the total height placeholder
placeholderHeight(len, ih) == len * ih

\* mutant: the index without the item height
wrapperTopIndexOnly(si, ih) == si

\* style top of the rendered items wrapper
wrapperTop(si, ih) == Times(si, ih)

\* One evaluation of the component body with state st
Pure(st, ih, bi, vh, items) ==
    LET si == startIndex(st, ih, bi)
        ei == endIndex(st, ih, bi, vh, Len(items))
    IN  [mounted      |-> TRUE,
         startIndex   |-> si,
         endIndex     |-> ei,
         visibleItems |-> visibleItems(items, si, ei),
         height       |-> placeholderHeight(Len(items), ih),
         top          |-> wrapperTop(si, ih)]

NoDom == [mounted |-> FALSE]

\* -------------------------------------------------------------- the inputs
SmallConfigs ==
    [ih : (-MaxNegItemHeight)..MaxItemHeight, bi : 0..MaxBuffer,
     vh : 0..MaxViewport, n : 0..MaxItems]

DocConfig ==
    [ih |-> ITEM_HEIGHT, bi |-> BUFFER_ITEMS, vh |-> VIEWPORT_HEIGHT,
     n |-> TOTAL_ITEMS]

IsDocConfig ==
    /\ itemHeight = ITEM_HEIGHT
    /\ bufferItems = BUFFER_ITEMS
    /\ viewportHeight = VIEWPORT_HEIGHT
    /\ Len(allItems) = TOTAL_ITEMS

\* The scrollTop values the host may report.  A scroll container reports
\* offsets in [0, scrollHeight - clientHeight]; elastic overscroll and a
\* resize in progress report values below 0 and beyond that maximum.
ScrollOffsets == IF IsDocConfig THEN DocScrollOffsets ELSE (-MaxNegScroll)..MaxScroll

\* ------------------------------------------- the programs not running
\* null, as req.auth and formData.get deliver it
null == [isNull |-> TRUE]

\* delay of the setTimeout of copyToClipboard, in ms
RESET_DELAY == 2000

\* No request has been made, login has not been invoked
AuthAtRest ==
    /\ session = null
    /\ nav = <<>>
    /\ loginCall = [pc |-> "idle"]
    /\ signInCalls = 0

\* CodeBlock as mounted: useState(false), the Copy icon, nothing pending
CopyAtRest ==
    /\ isCopied = FALSE
    /\ icon = "Copy"
    /\ writes = <<>>
    /\ timers = <<>>
    /\ clipboard = <<>>
    /\ sinceCopy = RESET_DELAY
    /\ outcomes = <<>>

\* The list of the article with its documented constants, without items
\* and not mounted
ListAtRest ==
    /\ itemHeight = ITEM_HEIGHT
    /\ bufferItems = BUFFER_ITEMS
    /\ viewportHeight = VIEWPORT_HEIGHT
    /\ allItems = ALL_ITEMS(0)
    /\ scrollTop = 0
    /\ updates = <<>>
    /\ dom = NoDom

\* ------------------------------------------------------------------ actions
Init ==
    /\ \E c \in SmallConfigs \cup {DocConfig} :
          /\ itemHeight = c.ih
          /\ bufferItems = c.bi
          /\ viewportHeight = c.vh
          /\ allItems = ALL_ITEMS(c.n)
    /\ scrollTop = 0
    /\ updates = <<>>
    /\ dom = NoDom
    /\ AuthAtRest
    /\ CopyAtRest

\* First render: useState(0), then the body
Mount ==
    /\ ~dom.mounted
    /\ scrollTop' = 0
    /\ dom' = Pure(0, itemHeight, bufferItems, viewportHeight, allItems)
    /\ UNCHANGED <<itemHeight, bufferItems, viewportHeight, allItems, updates>>
    /\ UNCHANGED <<authVars, copyVars>>

\* onScroll: the handler hands the container's scrollTop to setScrollTop
handleScroll(offset) ==
    /\ dom.mounted
    /\ Len(updates) < MaxQueue
    /\ updates' = Append(updates, offset)
    /\ UNCHANGED <<itemHeight, bufferItems, viewportHeight, allItems,
                   scrollTop, dom>>
    /\ UNCHANGED <<authVars, copyVars>>

\* mutant: the oldest queued setScrollTop call wins
RenderOldest ==
    /\ dom.mounted
    /\ updates # <<>>
    /\ scrollTop' = updates[1]
    /\ updates' = <<>>
    /\ dom' = Pure(scrollTop', itemHeight, bufferItems, viewportHeight,
                   allItems)
    /\ UNCHANGED <<itemHeight, bufferItems, viewportHeight, allItems>>
    /\ UNCHANGED <<authVars, copyVars>>

\* mutant: endIndex kept from the previous render (a stale memoized value)
RenderTorn ==
    /\ dom.mounted
    /\ updates # <<>>
    /\ scrollTop' = updates[Len(updates)]
    /\ updates' = <<>>
    /\ dom' = [Pure(scrollTop', itemHeight, bufferItems, viewportHeight,
                    allItems) EXCEPT !.endIndex = dom.endIndex]
    /\ UNCHANGED <<itemHeight, bufferItems, viewportHeight, allItems>>
    /\ UNCHANGED <<authVars, copyVars>>

\* mutant: a backward scroll keeps the output of the previous render
RenderForwardOnly ==
    /\ dom.mounted
    /\ updates # <<>>
    /\ scrollTop' = updates[Len(updates)]
    /\ updates' = <<>>
    /\ dom' = IF scrollTop' < scrollTop THEN dom
              ELSE Pure(scrollTop', itemHeight, bufferItems, viewportHeight,
                        allItems)
    /\ UNCHANGED <<itemHeight, bufferItems, viewportHeight, allItems>>
    /\ UNCHANGED <<authVars, copyVars>>

\* mutant: the render writes a corrected offset back into the state
RenderClamping ==
    /\ dom.mounted
    /\ updates # <<>>
    /\ scrollTop' = (IF updates[Len(updates)] < 0 THEN 0
                     ELSE updates[Len(updates)])
    /\ updates' = <<>>
    /\ dom' = Pure(scrollTop', itemHeight, bufferItems, viewportHeight,
                   allItems)
    /\ UNCHANGED <<itemHeight, bufferItems, viewportHeight, allItems>>
    /\ UNCHANGED <<authVars, copyVars>>

\* Re-render: the queued setScrollTop calls are applied in order (the last
\* one wins) and the body is evaluated once with the resulting state
Render ==
    /\ dom.mounted
    /\ updates # <<>>
    /\ scrollTop' = updates[Len(updates)]
    /\ updates' = <<>>
    /\ dom' = Pure(scrollTop', itemHeight, bufferItems, viewportHeight,
                   allItems)
    /\ UNCHANGED <<itemHeight, bufferItems, viewportHeight, allItems>>
    /\ UNCHANGED <<authVars, copyVars>>

Next ==
    \/ Mount
    \/ \E offset \in ScrollOffsets : handleScroll(offset)
    \/ Render

Spec == Init /\ [][Next]_vars

\* ------------------------------- the documented constants, every offset
\* The component with ITEM_HEIGHT 32, BUFFER_ITEMS 20, VIEWPORT_HEIGHT 300
\* and a list of one of the DocListSizes, rendered at every whole-pixel
\* offset from MaxDocOverscroll above the top to MaxDocOverscroll below the
\* end of the content.
InitDoc ==
    /\ itemHeight = ITEM_HEIGHT
    /\ bufferItems = BUFFER_ITEMS
    /\ viewportHeight = VIEWPORT_HEIGHT
    /\ \E n \in DocListSizes : allItems = ALL_ITEMS(n)
    /\ scrollTop = 0
    /\ updates = <<>>
    /\ dom = NoDom
    /\ AuthAtRest
    /\ CopyAtRest

DocOffsets ==
    (-MaxDocOverscroll)..(Len(allItems) * itemHeight + MaxDocOverscroll)

\* One scroll notification rendered at once: setScrollTop(offset), then the
\* body with the new state
scrollAndRender(offset) ==
    /\ dom.mounted
    /\ updates = <<>>
    /\ scrollTop' = offset
    /\ dom' = Pure(offset, itemHeight, bufferItems, viewportHeight, allItems)
    /\ UNCHANGED <<itemHeight, bufferItems, viewportHeight, allItems, updates>>
    /\ UNCHANGED <<authVars, copyVars>>

\* The host moves the container one pixel up or down per notification, so
\* every offset of DocOffsets is rendered
NextDoc ==
    \/ Mount
    \/ \E d \in {-1, 1} :
          /\ scrollTop + d \in DocOffsets
          /\ scrollAndRender(scrollTop + d)

SpecDoc == InitDoc /\ [][NextDoc]_vars

\* --------------------------------------- the item sequence replaced
\* ALL_ITEMS is read anew by every evaluation of the body (ALL_ITEMS.length
\* and ALL_ITEMS.slice, no memoized range).  A replacement of the sequence
\* (a filter change) comes with a render: the body is evaluated against the
\* new sequence, with the scrollTop state left as it is unless setScrollTop
\* calls are pending, which the same render applies.
ReplaceItems(n) ==
    /\ dom.mounted
    /\ n # Len(allItems)
    /\ allItems' = ALL_ITEMS(n)
    /\ scrollTop' = (IF updates = <<>> THEN scrollTop
                     ELSE updates[Len(updates)])
    /\ updates' = <<>>
    /\ dom' = Pure(scrollTop', itemHeight, bufferItems, viewportHeight,
                   allItems')
    /\ UNCHANGED <<itemHeight, bufferItems, viewportHeight>>
    /\ UNCHANGED <<authVars, copyVars>>

NextReplace ==
    \/ Next
    \/ \E n \in 0..MaxItems : ReplaceItems(n)

SpecReplace == Init /\ [][NextReplace]_vars

\* ===================================================================
\* The authentication flow of src/content/posts/authentication.mdx: the
\* route constants, the middleware, loginSchema and the login server action.
\* A string is the sequence of its characters.

\* --------------------------------------------------------------- routes.ts
ROOT == <<"/">>
DEFAULT_REDIRECT == <<"/", "p", "r", "o", "t", "e", "c", "t", "e", "d">>
PUBLIC_ROUTES == <<ROOT>>

\* array.includes(x)
Includes(array, x) == \E i \in 1..Len(array) : array[i] = x

\* s starts with the pattern pat, in which "." stands for any character
StartsWith(s, pat) ==
    /\ Len(s) >= Len(pat)
    /\ \A i \in 1..Len(pat) : pat[i] = "." \/ pat[i] = s[i]

\* the alternatives of the negative lookahead of config.matcher
MatcherExcluded ==
    {<<"a", "p", "i">>,
     <<"_", "n", "e", "x", "t", "/", "s", "t", "a", "t", "i", "c">>,
     <<"_", "n", "e", "x", "t", "/", "i", "m", "a", "g", "e">>,
     <<"f", "a", "v", "i", "c", "o", "n", ".", "i", "c", "o">>}

\* config.matcher: "/((?!api|_next/static|_next/image|favicon.ico).*)"
matcher(pathname) ==
    /\ Len(pathname) >= 1
    /\ pathname[1] = "/"
    /\ \A pat \in MatcherExcluded :
           ~StartsWith(SubSeq(pathname, 2, Len(pathname)), pat)

\* Response.redirect(new URL(path, nextUrl)): path is absolute, so it is the
\* pathname of the target
Redirect(path) == [kind |-> "redirect", to |-> path]

\* the callback returns undefined: the request goes on to the route
PassThrough == [kind |-> "next"]

\* mutant: the first test without isAuthenticated
middlewarePublicAlwaysRedirects(pathname, reqAuth) ==
    LET isAuthenticated == reqAuth # null
        isPublicRoute == Includes(PUBLIC_ROUTES, pathname)
    IN  IF isPublicRoute
        THEN Redirect(DEFAULT_REDIRECT)
        ELSE IF ~isAuthenticated /\ ~isPublicRoute
        THEN Redirect(ROOT)
        ELSE PassThrough

\* mutant: the second test with || where the callback has &&
middlewareOrForAnd(pathname, reqAuth) ==
    LET isAuthenticated == reqAuth # null
        isPublicRoute == Includes(PUBLIC_ROUTES, pathname)
    IN  IF isPublicRoute /\ isAuthenticated
        THEN Redirect(DEFAULT_REDIRECT)
        ELSE IF ~isAuthenticated \/ ~isPublicRoute
        THEN Redirect(ROOT)
        ELSE PassThrough

\* mutant: the second test without the negation of isAuthenticated
middlewareNoNegation(pathname, reqAuth) ==
    LET isAuthenticated == reqAuth # null
        isPublicRoute == Includes(PUBLIC_ROUTES, pathname)
    IN  IF isPublicRoute /\ isAuthenticated
        THEN Redirect(DEFAULT_REDIRECT)
        ELSE IF isAuthenticated /\ ~isPublicRoute
        THEN Redirect(ROOT)
        ELSE PassThrough

\* the callback handed to auth(): req.nextUrl.pathname and req.auth
middleware(pathname, reqAuth) ==
    LET isAuthenticated == reqAuth # null
        isPublicRoute == Includes(PUBLIC_ROUTES, pathname)
    IN  IF isPublicRoute /\ isAuthenticated
        THEN Redirect(DEFAULT_REDIRECT)
        ELSE IF ~isAuthenticated /\ ~isPublicRoute
        THEN Redirect(ROOT)
        ELSE PassThrough

\* One request as the server answers it: the middleware runs for the paths
\* of config.matcher only, every other request goes on to its route
Respond(pathname, reqAuth) ==
    [pathname |-> pathname,
     auth     |-> reqAuth,
     matched  |-> matcher(pathname),
     response |-> IF matcher(pathname) THEN middleware(pathname, reqAuth)
                  ELSE PassThrough]

\* ------------------------------------------------------------- loginSchema
\* a string value of a form field
String(chars) == [chars |-> chars]

Whitespace == {" "}
Letters ==
    {"a", "b", "c", "d", "e", "f", "g", "h", "i", "j", "k", "l", "m", "n",
     "o", "p", "q", "r", "s", "t", "u", "v", "w", "x", "y", "z"}
Digits == {"0", "1", "2", "3", "4", "5", "6", "7", "8", "9"}

\* z.string().trim(): leading and trailing whitespace removed
RECURSIVE Trim(_)
Trim(chars) ==
    IF chars = <<>> THEN <<>>
    ELSE IF Head(chars) \in Whitespace THEN Trim(Tail(chars))
    ELSE IF chars[Len(chars)] \in Whitespace
    THEN Trim(SubSeq(chars, 1, Len(chars) - 1))
    ELSE chars

\* .email(): zod's pattern
\* ^(?!\.)(?!.*\.\.)([A-Z0-9_'+\-\.]*)[A-Z0-9_+-]@([A-Z0-9][A-Z0-9\-]*\.)+[A-Z]{2,}$
\* (case-insensitive), read over lower-case letters and digits
IsEmail(chars) ==
    \E at \in 2..(Len(chars) - 1) :
        LET local == SubSeq(chars, 1, at - 1)
            domain == SubSeq(chars, at + 1, Len(chars))
        IN  /\ chars[at] = "@"
            /\ local[1] # "."
            /\ \A i \in 1..(Len(chars) - 1) :
                   ~(chars[i] = "." /\ chars[i + 1] = ".")
            /\ \A i \in 1..Len(local) :
                   local[i] \in Letters \cup Digits \cup
                                    {"_", "'", "+", "-", "."}
            /\ local[Len(local)] \in Letters \cup Digits \cup {"_", "+", "-"}
            /\ \E dot \in 2..(Len(domain) - 2) :
                   /\ domain[dot] = "."
                   /\ \A i \in (dot + 1)..Len(domain) : domain[i] \in Letters
                   /\ domain[1] \in Letters \cup Digits
                   /\ \A i \in 1..(dot - 1) :
                          \/ domain[i] \in Letters \cup Digits
                          \/ domain[i] = "-" /\ domain[i - 1] # "."
                          \/ domain[i] = "." /\ domain[i + 1] # "-"

\* the messages loginSchema collects for the email field
emailIssues(value) ==
    IF value = null THEN <<"Expected string, received null">>
    ELSE LET t == Trim(value.chars)
         IN  (IF Len(t) < 1 THEN <<"Email required!">> ELSE <<>>)
             \o (IF ~IsEmail(t) THEN <<"Invalid email!">> ELSE <<>>)

\* the messages loginSchema collects for the password field
passwordIssues(value) ==
    IF value = null THEN <<"Expected string, received null">>
    ELSE LET t == Trim(value.chars)
         IN  (IF Len(t) < 1 THEN <<"Password required!">> ELSE <<>>)
             \o (IF Len(t) < 8
                 THEN <<"Password must have at least 8 characters!">>
                 ELSE <<>>)

\* loginSchema.safeParse({email, password}) with error.flatten().fieldErrors:
\* only the fields that have messages are present
safeParse(data) ==
    LET issues == [email |-> emailIssues(data.email),
                   password |-> passwordIssues(data.password)]
        failed == {f \in {"email", "password"} : issues[f] # <<>>}
    IN  [success |-> failed = {},
         fieldErrors |-> [f \in failed |-> issues[f]]]

\* ------------------------------------------------------------- actions.ts
defaultValues == [email |-> "", password |-> ""]

Return(value) == [kind |-> "return", value |-> value]
Throw(error) == [kind |-> "throw", error |-> error]

\* the catch block of login
loginCatch(error) ==
    IF error.isAuthError
    THEN IF error.type = "CredentialsSignin"
         THEN Return([message |-> "credentials error",
                      errors |-> [email |-> defaultValues.email,
                                  password |-> defaultValues.password,
                                  credentials |->
                                      "incorrect email or password"]])
         ELSE Return([message |-> "unknown error",
                      errors |-> [email |-> defaultValues.email,
                                  password |-> defaultValues.password,
                                  unknown |-> "unknown error"]])
    ELSE Throw(error)

\* login from the point where `await signIn(...)` settles
loginAfterSignIn(settled) ==
    IF settled.kind = "resolved"
    THEN Return([message |-> "success", errors |-> <<>>])
    ELSE loginCatch(settled.error)

AuthError(type) == [isAuthError |-> TRUE, type |-> type]
OtherError(type) == [isAuthError |-> FALSE, type |-> type]

\* How signIn("credentials", formData) can settle: it resolves, it throws
\* an AuthError (CredentialsSignin for wrong credentials, other types for
\* other failures) or it throws something that is no AuthError (the
\* redirect of a completed sign-in, a failure of the runtime).  signedIn
\* tells whether the session was established.
SignInOutcomes ==
    {[kind |-> "resolved", signedIn |-> TRUE],
     [kind |-> "rejected", signedIn |-> TRUE,
      error |-> OtherError("NEXT_REDIRECT")],
     [kind |-> "rejected", signedIn |-> FALSE,
      error |-> OtherError("TypeError")],
     [kind |-> "rejected", signedIn |-> FALSE,
      error |-> AuthError("CredentialsSignin")],
     [kind |-> "rejected", signedIn |-> FALSE,
      error |-> AuthError("CallbackRouteError")],
     [kind |-> "rejected", signedIn |-> FALSE,
      error |-> AuthError("AccessDenied")]}

\* --------------------------------------------------- inputs of the flow
\* the session of the signed-in user
UserSession == [user |-> "user"]

\* every pathname of at most MaxPathLen characters over "/" and "a"
ShortPaths ==
    UNION {{p \in [1..n -> {"/", "a"}] : p[1] = "/"} : n \in 1..MaxPathLen}

\* /protected, /protected/, /api, /api/a, /apia, /a/api, /_next/image,
\* /_next/static/a, /favicon.ico, /faviconxico
LongPaths ==
    {DEFAULT_REDIRECT,
     DEFAULT_REDIRECT \o <<"/">>,
     <<"/", "a", "p", "i">>,
     <<"/", "a", "p", "i", "/", "a">>,
     <<"/", "a", "p", "i", "a">>,
     <<"/", "a", "/", "a", "p", "i">>,
     <<"/", "_", "n", "e", "x", "t", "/", "i", "m", "a", "g", "e">>,
     <<"/", "_", "n", "e", "x", "t", "/", "s", "t", "a", "t", "i", "c",
       "/", "a">>,
     <<"/", "f", "a", "v", "i", "c", "o", "n", ".", "i", "c", "o">>,
     <<"/", "f", "a", "v", "i", "c", "o", "n", "x", "i", "c", "o">>}

RequestPaths == ShortPaths \cup LongPaths

\* null (the field is missing), "", " ", "a", "a@a", "a@a.io", " a@a.io ",
\* ".a@a.io", "a@-a.io"
Emails ==
    {null,
     String(<<>>),
     String(<<" ">>),
     String(<<"a">>),
     String(<<"a", "@", "a">>),
     String(<<"a", "@", "a", ".", "i", "o">>),
     String(<<" ", "a", "@", "a", ".", "i", "o", " ">>),
     String(<<".", "a", "@", "a", ".", "i", "o">>),
     String(<<"a", "@", "-", "a", ".", "i", "o">>)}

\* null, "", "  ", "1234567", "12345678", " 1234567 ", " 12345678"
Passwords ==
    {null,
     String(<<>>),
     String(<<" ", " ">>),
     String(<<"1", "2", "3", "4", "5", "6", "7">>),
     String(<<"1", "2", "3", "4", "5", "6", "7", "8">>),
     String(<<" ", "1", "2", "3", "4", "5", "6", "7", " ">>),
     String(<<" ", "1", "2", "3", "4", "5", "6", "7", "8">>)}

FormDatas == [email : Emails, password : Passwords]

\* ---------------------------------------------------- actions of the flow
InitAuth ==
    /\ AuthAtRest
    /\ ListAtRest
    /\ CopyAtRest

\* The browser requests a page: a new navigation
Request(pathname) ==
    /\ nav' = <<Respond(pathname, session)>>
    /\ UNCHANGED <<session, loginCall, signInCalls>>
    /\ UNCHANGED <<listVars, copyVars>>

\* The browser follows the redirect it was answered with
FollowRedirect ==
    /\ nav # <<>>
    /\ Len(nav) < MaxHops
    /\ nav[Len(nav)].response.kind = "redirect"
    /\ nav' = Append(nav, Respond(nav[Len(nav)].response.to, session))
    /\ UNCHANGED <<session, loginCall, signInCalls>>
    /\ UNCHANGED <<listVars, copyVars>>

\* mutant: signIn called before the fields are validated
loginSignInFirst(formData) ==
    /\ loginCall.pc # "signIn"
    /\ signInCalls < MaxSignIns
    /\ loginCall' = [pc |-> "signIn", formData |-> formData]
    /\ signInCalls' = signInCalls + 1
    /\ UNCHANGED <<session, nav>>
    /\ UNCHANGED <<listVars, copyVars>>

\* login(prevState, formData) up to its return or its await
login(formData) ==
    LET email == formData.email
        password == formData.password
        validatedFields == safeParse([email |-> email,
                                      password |-> password])
    IN  /\ loginCall.pc # "signIn"
        /\ IF ~validatedFields.success
           THEN /\ loginCall' =
                       [pc |-> "done", formData |-> formData,
                        signIn |-> [kind |-> "not called"],
                        result |-> Return(
                            [message |-> "validation error",
                             errors |-> validatedFields.fieldErrors])]
                /\ UNCHANGED signInCalls
           ELSE /\ signInCalls < MaxSignIns
                /\ loginCall' = [pc |-> "signIn", formData |-> formData]
                /\ signInCalls' = signInCalls + 1
        /\ UNCHANGED <<session, nav>>
        /\ UNCHANGED <<listVars, copyVars>>

\* `await signIn("credentials", formData)` settles and login finishes
signInSettles(settled) ==
    /\ loginCall.pc = "signIn"
    /\ loginCall' = [pc |-> "done", formData |-> loginCall.formData,
                     signIn |-> settled,
                     result |-> loginAfterSignIn(settled)]
    /\ session' = IF settled.signedIn THEN UserSession ELSE session
    /\ UNCHANGED <<nav, signInCalls>>
    /\ UNCHANGED <<listVars, copyVars>>

\* logout(): await signOut()
logout ==
    /\ session # null
    /\ session' = null
    /\ UNCHANGED <<nav, loginCall, signInCalls>>
    /\ UNCHANGED <<listVars, copyVars>>

NextAuth ==
    \/ \E pathname \in RequestPaths : Request(pathname)
    \/ FollowRedirect
    \/ \E formData \in FormDatas : login(formData)
    \/ \E settled \in SignInOutcomes : signInSettles(settled)
    \/ logout

SpecAuth == InitAuth /\ [][NextAuth]_vars

\* ===================================================================
\* The copy button of src/components/react/Pre.tsx: CodeBlock with its
\* isCopied state, the pending navigator.clipboard.writeText promises and
\* the pending setTimeout callbacks.  Time is counted in ms.

\* what ref.current can hold when the button is clicked
Snippets == {null, [innerText |-> <<>>], [innerText |-> <<"x">>]}

\* snippet?.innerText ?? ""
snippetText(snippet) == IF snippet = null THEN <<>> ELSE snippet.innerText

\* {isCopied ? <Check/> : <Copy/>}
Icon(copied) == IF copied THEN "Check" ELSE "Copy"

\* the sequence without its i-th element
Without(seq, i) == SubSeq(seq, 1, i - 1) \o SubSeq(seq, i + 1, Len(seq))

\* number of clicks so far: every click starts one writeText
clicks == Len(writes) + Len(outcomes)

\* the steps by which time is let pass
TickSteps == {RESET_DELAY \div 4, RESET_DELAY \div 2, RESET_DELAY}

InitCopy ==
    /\ CopyAtRest
    /\ ListAtRest
    /\ AuthAtRest

\* mutant: the promise of writeText not awaited
copyToClipboardNoAwait(snippet) ==
    /\ clicks < MaxClicks
    /\ writes' = Append(writes, snippetText(snippet))
    /\ isCopied' = TRUE
    /\ icon' = Icon(TRUE)
    /\ timers' = Append(timers, RESET_DELAY)
    /\ sinceCopy' = 0
    /\ UNCHANGED <<clipboard, outcomes>>
    /\ UNCHANGED <<listVars, authVars>>

\* onClick: copyToClipboard up to its await
copyToClipboard(snippet) ==
    /\ clicks < MaxClicks
    /\ writes' = Append(writes, snippetText(snippet))
    /\ UNCHANGED <<isCopied, icon, timers, clipboard, sinceCopy, outcomes>>
    /\ UNCHANGED <<listVars, authVars>>

\* mutant: the setTimeout call left out
writeResolvesNoTimer(i) ==
    /\ i \in 1..Len(writes)
    /\ clipboard' = writes[i]
    /\ writes' = Without(writes, i)
    /\ outcomes' = Append(outcomes, "resolved")
    /\ isCopied' = TRUE
    /\ icon' = Icon(TRUE)
    /\ sinceCopy' = 0
    /\ UNCHANGED timers
    /\ UNCHANGED <<listVars, authVars>>

\* writeText resolves: the text is on the clipboard and copyToClipboard
\* goes on with setIsCopied(true) and setTimeout(..., 2000); the state
\* change is rendered
writeResolves(i) ==
    /\ i \in 1..Len(writes)
    /\ clipboard' = writes[i]
    /\ writes' = Without(writes, i)
    /\ outcomes' = Append(outcomes, "resolved")
    /\ isCopied' = TRUE
    /\ icon' = Icon(TRUE)
    /\ timers' = Append(timers, RESET_DELAY)
    /\ sinceCopy' = 0
    /\ UNCHANGED <<listVars, authVars>>

\* writeText rejects: the await throws and copyToClipboard ends there
writeRejects(i) ==
    /\ i \in 1..Len(writes)
    /\ writes' = Without(writes, i)
    /\ outcomes' = Append(outcomes, "rejected")
    /\ UNCHANGED <<isCopied, icon, timers, clipboard, sinceCopy>>
    /\ UNCHANGED <<listVars, authVars>>

\* A timer is due: () => setIsCopied(false), and the change is rendered.
\* All timers have the same delay, so the oldest is due first.
timerFires ==
    /\ timers # <<>>
    /\ Head(timers) = 0
    /\ timers' = Tail(timers)
    /\ isCopied' = FALSE
    /\ icon' = Icon(FALSE)
    /\ UNCHANGED <<writes, clipboard, sinceCopy, outcomes>>
    /\ UNCHANGED <<listVars, authVars>>

\* d ms pass; no timer is passed over, and time is followed only while a
\* timer is pending or the last copy is less than RESET_DELAY ago
Tick(d) ==
    /\ timers # <<>> \/ sinceCopy < RESET_DELAY
    /\ \A k \in 1..Len(timers) : timers[k] >= d
    /\ timers' = [k \in 1..Len(timers) |-> timers[k] - d]
    /\ sinceCopy' = IF sinceCopy + d < RESET_DELAY THEN sinceCopy + d
                    ELSE RESET_DELAY
    /\ UNCHANGED <<isCopied, icon, writes, clipboard, outcomes>>
    /\ UNCHANGED <<listVars, authVars>>

NextCopy ==
    \/ \E snippet \in Snippets : copyToClipboard(snippet)
    \/ \E i \in 1..MaxClicks : writeResolves(i)
    \/ \E i \in 1..MaxClicks : writeRejects(i)
    \/ timerFires
    \/ \E d \in TickSteps : Tick(d)

SpecCopy == InitCopy /\ [][NextCopy]_vars

\* The event loop runs a due timer callback, and time passes
SpecCopyFair ==
    /\ SpecCopy
    /\ WF_vars(timerFires)
    /\ WF_vars(\E d \in TickSteps : Tick(d))

\* ------------------------------------------------------------- vocabulary
N == Len(allItems)
ValidConfig == itemHeight > 0
Shown == dom.mounted /\ ValidConfig

TypeOK ==
    /\ dom.mounted => dom = Pure(scrollTop, itemHeight, bufferItems,
                                 viewportHeight, allItems)
    /\ Shown => IsNum(dom.startIndex) /\ IsNum(dom.endIndex) /\ IsNum(dom.top)

Max(a, b) == IF a > b THEN a ELSE b
Min(a, b) == IF a < b THEN a ELSE b
Clamp(x, lo, hi) == Max(lo, Min(x, hi))

\* the largest offset a scroll container of this configuration can reach
MaxValidScroll == Max(0, N * itemHeight - viewportHeight)

\* index i is geometrically visible at the rendered scroll offset
Visible(i) ==
    /\ i * itemHeight < scrollTop + viewportHeight
    /\ (i + 1) * itemHeight > scrollTop

\* ------------------------------------------------------------------ claims

\* C1: for every N >= 0, itemHeight > 0, bufferCount >= 0, viewportHeight >= 0
\* and every scrollOffset >= 0, also beyond N*itemHeight - viewportHeight,
\* the rendered window satisfies 0 <= startIndex <= endIndex <= N.
C1_WindowWithinBounds ==
    (Shown /\ scrollTop >= 0) =>
        /\ 0 <= dom.startIndex.val
        /\ dom.startIndex.val <= dom.endIndex.val
        /\ dom.endIndex.val <= N

\* C2: every index of the list that is geometrically visible at the rendered
\* scroll offset, i.e. i*itemHeight < scrollOffset + viewportHeight and
\* (i+1)*itemHeight > scrollOffset, lies in [startIndex, endIndex).
C2_Coverage ==
    Shown =>
        \A i \in 0..(N - 1) :
            Visible(i) => (dom.startIndex.val <= i /\ i < dom.endIndex.val)

\* an item cut by the top edge (scrollOffset not a multiple of itemHeight)
\* is the first of the window, and one cut by the bottom edge is the last
C2_Witness ==
    /\ Shown
    /\ bufferItems = 0
    /\ scrollTop > 0
    /\ scrollTop % itemHeight # 0
    /\ (scrollTop + viewportHeight) % itemHeight # 0
    /\ dom.startIndex.val < N
    /\ Visible(dom.startIndex.val)
    /\ dom.endIndex.val < N
    /\ Visible(dom.endIndex.val - 1)

\* C3: for every input the rendered startIndex is
\* clamp(floor(scrollOffset/itemHeight) - bufferCount, 0, N) and the rendered
\* endIndex is clamp(ceil((scrollOffset+viewportHeight)/itemHeight)
\* + bufferCount, startIndex, N); with the documented constants and
\* scrollOffset 3200 that is startIndex 80, endIndex 130, offsetTop 2560.
C3_MatchesSpecifiedAlgorithm ==
    Shown =>
        LET rawStart == FloorDiv(scrollTop, itemHeight) - bufferItems
            rawEnd == CeilDiv(scrollTop + viewportHeight, itemHeight)
                          + bufferItems
            specStart == Clamp(rawStart, 0, N)
            specEnd == Clamp(rawEnd, specStart, N)
        IN  /\ dom.startIndex.val = specStart
            /\ dom.endIndex.val = specEnd
            /\ (IsDocConfig /\ scrollTop = 3200) =>
                   /\ dom.startIndex.val = 80
                   /\ dom.endIndex.val = 130
                   /\ dom.top.val = 2560

\* C4: a negative scrollOffset is clamped to zero before the range is
\* computed: the window rendered for it is the window for scrollOffset 0,
\* and neither index is negative.
C4_NegativeClampedToZero ==
    (Shown /\ scrollTop < 0) =>
        /\ dom.startIndex =
               startIndex(0, itemHeight, bufferItems)
        /\ dom.endIndex =
               endIndex(0, itemHeight, bufferItems, viewportHeight, N)
        /\ dom.startIndex.val >= 0
        /\ dom.endIndex.val >= 0

\* C5: an instance configured with itemHeight <= 0 fails at construction:
\* it is never rendered, so no window is ever computed with that
\* configuration (no division by zero, no infinite range).
C5_InvalidConfigurationRejected ==
    itemHeight <= 0 => ~dom.mounted

\* C6: with the configuration fixed, a render for a scroll offset that is
\* not smaller than the previously rendered one yields a startIndex and an
\* endIndex that are not smaller than the previous ones.
C6_Monotonicity ==
    [][(Shown /\ dom'.mounted /\ scrollTop' >= scrollTop) =>
           /\ dom'.startIndex.val >= dom.startIndex.val
           /\ dom'.endIndex.val >= dom.endIndex.val]_vars

\* a forward scroll has moved both ends of the window
C6_Witness ==
    /\ Shown
    /\ scrollTop > 0
    /\ dom.startIndex.val > 0
    /\ dom.endIndex.val >
           endIndex(0, itemHeight, bufferItems, viewportHeight, N).val

\* C7: scrollOffset 0 renders startIndex 0, and the largest valid
\* scrollOffset, max(0, N*itemHeight - viewportHeight), renders endIndex N.
C7_Boundary ==
    Shown =>
        /\ scrollTop = 0 => dom.startIndex.val = 0
        /\ scrollTop = MaxValidScroll => dom.endIndex.val = N

\* the list is scrolled to its end, past the first items
C7_Witness ==
    /\ Shown
    /\ scrollTop > 0
    /\ scrollTop = MaxValidScroll
    /\ dom.startIndex.val > 0
    /\ dom.endIndex.val = N

\* C8: with an empty item sequence the rendered window is startIndex 0,
\* endIndex 0, offsetTop 0, totalHeight 0 for any scrollOffset and
\* viewportHeight.
C8_EmptySequence ==
    (Shown /\ N = 0) =>
        /\ dom.startIndex.val = 0
        /\ dom.endIndex.val = 0
        /\ dom.top.val = 0
        /\ dom.height = 0

\* C9: the rendered items wrapper is placed at startIndex * itemHeight, so
\* the k-th rendered item (each itemHeight tall) sits at its own index times
\* itemHeight.
C9_OffsetTop ==
    Shown =>
        /\ dom.top.val = dom.startIndex.val * itemHeight
        /\ \A k \in 1..Len(dom.visibleItems) :
               dom.top.val + (k - 1) * itemHeight
                   = dom.visibleItems[k] * itemHeight

\* item #100 at 3200px under the documented constants
C9_Witness ==
    /\ dom.mounted
    /\ IsDocConfig
    /\ scrollTop = 3200
    /\ dom.visibleItems[21] = 100
    /\ dom.top.val + 20 * itemHeight = 3200

\* C10: the spacer is N * itemHeight tall in every rendered state, whatever
\* scrollOffset, viewportHeight and bufferCount are, and a render changes
\* its height only if the length of the item sequence changed.
C10_TotalHeight ==
    /\ [](Shown => dom.height = N * itemHeight)
    /\ [][(Shown /\ dom'.mounted /\ dom'.height # dom.height) =>
              Len(allItems') # Len(allItems)]_vars

\* a scrolled list whose window is a proper part of it
C10_Witness ==
    /\ Shown
    /\ scrollTop > 0
    /\ dom.height > 0
    /\ Len(dom.visibleItems) > 0
    /\ Len(dom.visibleItems) < N

\* the scroll offset most recently handed to setScrollTop
LatestOffset == IF updates = <<>> THEN scrollTop ELSE updates[Len(updates)]

\* C11: the rendered items are exactly the items at the indices
\* [startIndex, endIndex) of the item sequence, in sequence order, each
\* carrying its own key (the item's value, not its position in the window).
C11_RendersExactlyWindow ==
    Shown =>
        dom.visibleItems =
            [k \in 1..Max(0, dom.endIndex.val - dom.startIndex.val) |->
                 allItems[dom.startIndex.val + k]]

\* C12: a render happens only when a scroll notification is pending, it
\* consumes every pending notification, and it shows the window of the most
\* recent of them, never that of an earlier one.
C12_LatestOffsetRendered ==
    [][(dom.mounted /\ (dom' # dom \/ scrollTop' # scrollTop
                          \/ Len(updates') < Len(updates))) =>
           /\ updates # <<>>
           /\ updates' = <<>>
           /\ scrollTop' = updates[Len(updates)]
           /\ dom' = Pure(updates[Len(updates)], itemHeight, bufferItems,
                          viewportHeight, allItems)]_vars

\* two notifications with different offsets are pending, the older one
\* would show another window than the newer one
C12_Witness ==
    /\ Shown
    /\ Len(updates) = 2
    /\ startIndex(updates[1], itemHeight, bufferItems)
           # startIndex(updates[2], itemHeight, bufferItems)
    /\ updates[2] # scrollTop

\* C13: in every rendered state startIndex, endIndex, offsetTop and
\* totalHeight (and the rendered items) are those of one evaluation of the
\* component with one scroll offset; no state mixes two evaluations.
C13_AtomicResult ==
    dom.mounted =>
        \E s \in ScrollOffsets \cup {0} :
            dom = Pure(s, itemHeight, bufferItems, viewportHeight, allItems)

\* a re-render has replaced both ends of the first window
C13_Witness ==
    /\ Shown
    /\ updates = <<>>
    /\ dom.startIndex # startIndex(0, itemHeight, bufferItems)
    /\ dom.endIndex # endIndex(0, itemHeight, bufferItems, viewportHeight, N)
    /\ dom.top.val > 0

\* the index set {i : from <= i < to}
Window(from, to) == {i \in from..(to - 1) : TRUE}

\* C14: the rendered result is determined by the current inputs (item
\* sequence, itemHeight, bufferCount, viewportHeight and the rendered scroll
\* offset) alone: whatever renders came before, it is the result of
\* evaluating the component with these inputs.
C14_Determinism ==
    dom.mounted =>
        dom = Pure(scrollTop, itemHeight, bufferItems, viewportHeight,
                   allItems)

\* the rendered offset is about to be rendered again after another offset
\* has been notified in between
C14_Witness ==
    /\ Shown
    /\ scrollTop > 0
    /\ Len(updates) = 2
    /\ updates[2] = scrollTop
    /\ startIndex(updates[1], itemHeight, bufferItems) # dom.startIndex

\* C15: the window rendered with bufferCount b contains the window the same
\* inputs give with any smaller bufferCount, in particular with 0.
C15_BufferOnlyAdds ==
    Shown =>
        \A b1 \in 0..bufferItems :
            Window(startIndex(scrollTop, itemHeight, b1).val,
                   endIndex(scrollTop, itemHeight, b1, viewportHeight,
                            N).val)
                \subseteq Window(dom.startIndex.val, dom.endIndex.val)

\* the buffer has added an index on each side of a non-empty window
C15_Witness ==
    /\ Shown
    /\ bufferItems > 0
    /\ Window(startIndex(scrollTop, itemHeight, 0).val,
              endIndex(scrollTop, itemHeight, 0, viewportHeight, N).val)
           # {}
    /\ dom.startIndex.val < startIndex(scrollTop, itemHeight, 0).val
    /\ dom.endIndex.val
           > endIndex(scrollTop, itemHeight, 0, viewportHeight, N).val

\* C16: with a valid configuration every scroll offset the host delivers
\* (negative, not a multiple of itemHeight, beyond the maximum) is rendered:
\* a pending notification can always be rendered, and the result holds
\* finite indices, a finite offset and only items of the item sequence.
C16_RenderNeverFails ==
    Shown =>
        /\ updates # <<>> => ENABLED Render
        /\ IsNum(dom.startIndex)
        /\ IsNum(dom.endIndex)
        /\ IsNum(dom.top)
        /\ \A k \in 1..Len(dom.visibleItems) :
               \E i \in 1..N : dom.visibleItems[k] = allItems[i]

\* offsets below 0 and beyond the content height have been rendered
C16_Witness ==
    /\ Shown
    /\ updates = <<>>
    /\ \/ scrollTop < 0 /\ dom.endIndex.val < 0
       \/ scrollTop > N * itemHeight /\ dom.startIndex.val > N

\* C17: with ITEM_HEIGHT 32, BUFFER_ITEMS 20 and VIEWPORT_HEIGHT 300 the
\* window endIndex - startIndex, and with it the number of rendered items,
\* is at most 60 at every scroll position, whatever the length of the list.
C17_AboutSixtyItems ==
    (dom.mounted /\ itemHeight = ITEM_HEIGHT /\ bufferItems = BUFFER_ITEMS
         /\ viewportHeight = VIEWPORT_HEIGHT) =>
        /\ dom.endIndex.val - dom.startIndex.val <= 60
        /\ Len(dom.visibleItems) <= 60

\* the largest window the documented constants give, in the longest list
C17_Witness ==
    /\ dom.mounted
    /\ N = 1000
    /\ scrollTop > 0
    /\ dom.endIndex.val - dom.startIndex.val = 51
    /\ Len(dom.visibleItems) = 51

\* C18: with the documented constants, a list scrolled to item #50
\* (scrollTop = 50 * 32) has startIndex 50 and its rendered-items wrapper at
\* top 1600px.
C18_ScrolledToItem50 ==
    (dom.mounted /\ IsDocConfig /\ scrollTop = 50 * ITEM_HEIGHT) =>
        /\ dom.startIndex.val = 50
        /\ dom.top.val = 1600

\* neither Math.max nor Math.min cuts the window at the rendered offset
Unclamped ==
    /\ FloorDiv(scrollTop, itemHeight) - bufferItems >= 0
    /\ CeilDiv(scrollTop + viewportHeight, itemHeight) + bufferItems <= N

\* C19: when neither clamp is active the window holds exactly bufferCount
\* indices that lie wholly above the viewport and exactly bufferCount
\* indices that lie wholly below it, also when viewportHeight is 0.
C19_SymmetricBuffer ==
    (Shown /\ Unclamped) =>
        LET w == Window(dom.startIndex.val, dom.endIndex.val)
        IN  /\ Cardinality({i \in w : (i + 1) * itemHeight <= scrollTop})
                   = bufferItems
            /\ Cardinality({i \in w :
                   i * itemHeight >= scrollTop + viewportHeight})
                   = bufferItems
            /\ \A i \in w : Visible(i)
                   \/ (i + 1) * itemHeight <= scrollTop
                   \/ i * itemHeight >= scrollTop + viewportHeight

\* a viewport of height 0 in the middle of the list, buffered on both sides
C19_Witness ==
    /\ Shown
    /\ Unclamped
    /\ bufferItems > 0
    /\ viewportHeight = 0
    /\ scrollTop > 0
    /\ dom.startIndex.val < dom.endIndex.val

\* C20: a step that is not a scroll notification (a render) changes neither
\* the most recently notified scroll offset nor viewportHeight, itemHeight,
\* bufferCount or the item sequence; a notification changes none of the
\* latter four.
C20_Frame ==
    [][/\ UNCHANGED <<itemHeight, bufferItems, viewportHeight, allItems>>
       /\ Len(updates') <= Len(updates) => LatestOffset' = LatestOffset]_vars

\* a render has applied a notified negative offset
C20_Witness ==
    /\ Shown
    /\ updates = <<>>
    /\ scrollTop < 0
    /\ dom.startIndex.val = 0

\* C21: when the item sequence is replaced by one of another length and the
\* scroll offset stays as it is, the render that follows shows the window
\* computed against the new length (nothing of the previous render is kept)
\* and, for a scroll offset >= 0, 0 <= startIndex <= endIndex <= N_new.
C21_ReplacedSequence ==
    [][(Shown /\ dom'.mounted /\ Len(allItems') # Len(allItems)
            /\ scrollTop' = scrollTop /\ scrollTop >= 0) =>
           /\ dom' = Pure(scrollTop, itemHeight, bufferItems, viewportHeight,
                          allItems')
           /\ 0 <= dom'.startIndex.val
           /\ dom'.startIndex.val <= dom'.endIndex.val
           /\ dom'.endIndex.val <= Len(allItems')]_vars

\* the requests of the current navigation
Hops == {nav[i] : i \in 1..Len(nav)}
IsPublic(pathname) == \E i \in 1..Len(PUBLIC_ROUTES) : PUBLIC_ROUTES[i] = pathname

\* C22: a request without a session that the middleware handles and whose
\* pathname is not in PUBLIC_ROUTES is answered with a redirect to ROOT; no
\* such request is passed through to its route.
C22_UnauthenticatedRedirected ==
    \A h \in Hops :
        (h.auth = null /\ h.matched /\ ~IsPublic(h.pathname)) =>
            /\ h.response.kind = "redirect"
            /\ h.response.to = ROOT

\* a request for /protected without a session was sent to "/", which was
\* then served
C22_Witness ==
    /\ Len(nav) = 2
    /\ nav[1].pathname = DEFAULT_REDIRECT
    /\ nav[1].auth = null
    /\ nav[1].response = Redirect(ROOT)
    /\ nav[2].pathname = ROOT
    /\ nav[2].response = PassThrough

\* C23: a request with a session for the login page (a pathname in
\* PUBLIC_ROUTES) is answered with a redirect to DEFAULT_REDIRECT, which is
\* /protected, and a request with a session for any other pathname is
\* passed through.
C23_AuthenticatedRouting ==
    /\ DEFAULT_REDIRECT
           = <<"/", "p", "r", "o", "t", "e", "c", "t", "e", "d">>
    /\ \A h \in Hops :
           h.auth # null =>
               /\ IsPublic(h.pathname) =>
                      h.response = Redirect(DEFAULT_REDIRECT)
               /\ ~IsPublic(h.pathname) => h.response.kind = "next"

\* a signed-in user who asked for "/" was sent to /protected and served
C23_Witness ==
    /\ Len(nav) = 2
    /\ nav[1].pathname = ROOT
    /\ nav[1].auth = UserSession
    /\ nav[1].response = Redirect(DEFAULT_REDIRECT)
    /\ nav[2].auth = UserSession
    /\ nav[2].matched
    /\ nav[2].response = PassThrough

\* C24: while the authentication state stays the same, the request that
\* follows a redirect is passed through: a navigation holds at most one
\* redirect per authentication state it started or continued with.
C24_NoRedirectLoop ==
    \A i \in 1..(Len(nav) - 1) :
        nav[i + 1].auth = nav[i].auth => nav[i + 1].response = PassThrough

\* both redirects of the middleware have been followed in one navigation:
\* the session began between the two
C24_Witness ==
    /\ Len(nav) = 3
    /\ nav[1].response = Redirect(ROOT)
    /\ nav[2].auth # nav[1].auth
    /\ nav[2].response = Redirect(DEFAULT_REDIRECT)
    /\ nav[3].auth = nav[2].auth
    /\ nav[3].response = PassThrough

\* the fields pass loginSchema: both are strings, the trimmed email is an
\* address, the trimmed password has at least 8 characters
FieldsValid(formData) ==
    /\ formData.email # null
    /\ formData.password # null
    /\ IsEmail(Trim(formData.email.chars))
    /\ Len(Trim(formData.password.chars)) >= 8

\* C25: signIn is called only for fields that pass loginSchema; a call of
\* login with fields that fail it returns "validation error" and calls
\* signIn not at all; when signIn throws an AuthError of type
\* CredentialsSignin login returns "credentials error", for any other
\* AuthError "unknown error", and anything else signIn throws is thrown on
\* by login.
C25_LoginOutcomes ==
    /\ [](loginCall.pc = "signIn" => FieldsValid(loginCall.formData))
    /\ [][signInCalls' # signInCalls =>
              /\ loginCall'.pc = "signIn"
              /\ FieldsValid(loginCall'.formData)]_vars
    /\ [][(loginCall'.pc = "done" /\ loginCall.pc # "signIn") =>
              signInCalls' = signInCalls]_vars
    /\ [](loginCall.pc = "done" =>
              LET result == loginCall.result
                  signIn == loginCall.signIn
              IN  IF ~FieldsValid(loginCall.formData)
                  THEN /\ signIn.kind = "not called"
                       /\ result.kind = "return"
                       /\ result.value.message = "validation error"
                  ELSE /\ signIn.kind \in {"resolved", "rejected"}
                       /\ signIn.kind = "resolved" =>
                              /\ result.kind = "return"
                              /\ result.value.message = "success"
                       /\ signIn.kind = "rejected" =>
                              IF ~signIn.error.isAuthError
                              THEN result = Throw(signIn.error)
                              ELSE /\ result.kind = "return"
                                   /\ result.value.message =
                                          IF signIn.error.type
                                                 = "CredentialsSignin"
                                          THEN "credentials error"
                                          ELSE "unknown error")

\* login has thrown on what signIn threw for fields that needed trimming
C25_Witness ==
    /\ loginCall.pc = "done"
    /\ loginCall.formData.email
           = String(<<" ", "a", "@", "a", ".", "i", "o", " ">>)
    /\ loginCall.formData.password
           = String(<<" ", "1", "2", "3", "4", "5", "6", "7", "8">>)
    /\ loginCall.result = Throw(OtherError("TypeError"))
    /\ signInCalls = 1

\* C26: after a finite number of clicks, whatever their writes do, the
\* component comes to rest with isCopied false and the Copy icon shown; it
\* does not stay in the copied state.
C26_EventuallyNotCopied ==
    <>[](~isCopied /\ icon = "Copy")

\* two copies have completed and the button is back to the Copy icon
C26_Witness ==
    /\ Len(outcomes) >= 2
    /\ \A k \in 1..Len(outcomes) : outcomes[k] = "resolved"
    /\ writes = <<>>
    /\ timers = <<>>
    /\ ~isCopied
    /\ icon = "Copy"

\* C27: while the most recent completed copy is less than 2000 ms ago,
\* isCopied is true, also when that copy completed while the timer of an
\* earlier one was pending.
C27_CopiedForTwoSeconds ==
    sinceCopy < RESET_DELAY => isCopied

\* C28: isCopied becomes true only in the step in which a writeText promise
\* resolves, a timer is scheduled only in such a step, and a step in which
\* writeText rejects changes neither isCopied nor the icon nor the timers.
C28_CopiedOnlyAfterWrite ==
    /\ [][(isCopied' /\ ~isCopied) \/ Len(timers') > Len(timers) =>
              /\ Len(outcomes') = Len(outcomes) + 1
              /\ outcomes'[Len(outcomes')] = "resolved"]_vars
    /\ [][(Len(outcomes') > Len(outcomes)
               /\ outcomes'[Len(outcomes')] = "rejected") =>
              UNCHANGED <<isCopied, icon, timers, clipboard>>]_vars
    /\ [](isCopied => \E k \in 1..Len(outcomes) : outcomes[k] = "resolved")

\* a write was rejected while the button showed the copied state of an
\* earlier click, and one was rejected with nothing copied
C28_Witness ==
    /\ Len(outcomes) >= 2
    /\ outcomes[Len(outcomes)] = "rejected"
    /\ \/ isCopied /\ Len(timers) = 1
       \/ ~isCopied /\ timers = <<>> /\ outcomes[1] = "rejected"
                    /\ writes # <<>>

====
